---- MODULE Spec2Model ----
(***************************************************************************)
(* A model of sample/aerframe_budget_geofence.py: the hourly polling loop  *)
(* that fetches a device's cell registration from AerFrame, adopts the     *)
(* first present reading as the "stay-put" baseline and warns when a later *)
(* reading differs from it.                                                *)
(*                                                                         *)
(* The AerFrame client (aerframesdk.get_location) is an external           *)
(* collaborator: each call either returns a location record with the four  *)
(* integer fields mcc, mnc, lac, cellId, returns something that is no      *)
(* location record, raises ApiException, or raises some other exception.   *)
(* On location records the logger calls and the two helpers do not raise,  *)
(* so the fetch and the subscript loc['mcc'] are the places an invocation  *)
(* can fail.  sched.scheduler is the standard library event queue: enter() *)
(* stamps an event with timefunc() + delay, run() sleeps until the head    *)
(* event is due, pops it and calls its action.                             *)
(***************************************************************************)
EXTENDS Integers, Sequences, FiniteSets, TLC

VARIABLES
    pc,             \* position of the main program: "main" before begin_loop, "run" inside
                    \* scheduler.run(), "returned" after begin_loop
    queue,          \* the scheduler's event queue, ordered by (time, priority, insertion)
    now,            \* time.time(), in seconds since begin_loop was called
    ticks,          \* number of invocations of get_location_and_make_noise so far
    received,       \* original_location argument the latest invocation received
    fetched,        \* what aerframesdk.get_location did in the latest invocation
    log,            \* logger calls made by the latest invocation, in order
    entered,        \* scheduler.enter calls made by the latest invocation, in order
    fetches,        \* aerframesdk.get_location calls made by the latest invocation, in order
    finished,       \* time.time() when the latest invocation returned
    moved_before,   \* history: the invocation before the latest logged "The device moved!"
    first_present,  \* history: first present record any successful fetch returned, None if none yet
    adoptions,      \* history: number of "original location" info messages logged so far
    call_pc,        \* position of a direct call of one of the two pure helpers
    call_new,       \* argument of the direct call (loc / new_loc)
    call_prev,      \* argument of the direct call (prev_loc)
    returned        \* what the direct call returned and logged

vars == <<pc, queue, now, ticks, received, fetched, log, entered, fetches,
          finished, moved_before, first_present, adoptions, call_pc, call_new, call_prev, returned>>

loop_vars == <<pc, queue, now, ticks, received, fetched, log, entered, fetches,
               finished, moved_before, first_present, adoptions>>

call_vars == <<call_pc, call_new, call_prev, returned>>

----------------------------------------------------------------------------
(* Bounds of the model *)

MaxMcc == 1          \* mcc ranges over 0..MaxMcc (0 is the "no location" sentinel)
MaxCode == 1         \* mnc, lac and cellId range over 0..MaxCode
MaxTicks == 3        \* invocations explored per run
MaxDuration == 1     \* seconds a slow invocation takes (a fast one takes none)

(* Program constant *)
LOCATION_REQUEST_PERIOD_SECONDS == 60 * 60

----------------------------------------------------------------------------
(* Values *)

None == <<>>

Attributes == <<"mcc", "mnc", "lac", "cellId">>

Locations == [mcc : 0..MaxMcc, mnc : 0..MaxCode, lac : 0..MaxCode, cellId : 0..MaxCode]

\* Outcomes of one call of aerframesdk.get_location: a location record, a return
\* value that is no location record (None), ApiException, or any other exception
FetchOutcomes ==
    [raised : {"none"}, value : Locations \cup {None}]
        \cup {[raised |-> "ApiException", value |-> None],
              [raised |-> "BaseException", value |-> None]}

\* One outcome of each kind, with two present records that differ in cellId
OutcomeKinds ==
    {[raised |-> "none", value |-> None],
     [raised |-> "none", value |-> [mcc |-> 0, mnc |-> 0, lac |-> 0, cellId |-> 0]],
     [raised |-> "none", value |-> [mcc |-> 1, mnc |-> 0, lac |-> 0, cellId |-> 0]],
     [raised |-> "none", value |-> [mcc |-> 1, mnc |-> 0, lac |-> 0, cellId |-> 1]],
     [raised |-> "ApiException", value |-> None],
     [raised |-> "BaseException", value |-> None]}

Returned(outcome) == outcome.raised = "none" /\ outcome.value # None

\* The command line and configuration file: one account, one device
Arguments ==
    [account_id : {"acct"}, api_key : {"key"}, device_id : {"imsi"},
     device_id_type : {"IMSI"}, original_location : {None}]

\* One logger call
LogCall(level, msg, args) == [level |-> level, msg |-> msg, args |-> args]

----------------------------------------------------------------------------
(* is_location_present *)

\* variant: a reading counts as present whatever its mcc
is_location_present_any(loc) ==
    TRUE

\* variant: the sentinel is looked for in mnc instead of mcc
is_location_present_mnc(loc) ==
    IF loc["mnc"] = 0 THEN FALSE ELSE TRUE

\* variant: only an all-zero record counts as "no location"
is_location_present_all_zero(loc) ==
    IF loc["mcc"] = 0 /\ loc["mnc"] = 0 /\ loc["lac"] = 0 /\ loc["cellId"] = 0
    THEN FALSE ELSE TRUE

is_location_present(loc) ==
    IF loc["mcc"] = 0 THEN FALSE ELSE TRUE

----------------------------------------------------------------------------
(* location_changed *)

\* the logger.warn call for one differing attribute
moved_notice(new_loc, prev_loc, attribute) ==
    LogCall("warning", "Device has moved",
            <<attribute, prev_loc[attribute], new_loc[attribute]>>)

\* the for loop over the remaining attributes; acc is (result, logger calls so far)
RECURSIVE compare_attributes(_, _, _, _)
compare_attributes(new_loc, prev_loc, attributes, acc) ==
    IF attributes = <<>> THEN acc
    ELSE LET attribute == Head(attributes)
         IN  compare_attributes(new_loc, prev_loc, Tail(attributes),
                IF new_loc[attribute] # prev_loc[attribute]
                THEN [result |-> TRUE,
                      log |-> Append(acc.log, moved_notice(new_loc, prev_loc, attribute))]
                ELSE acc)

\* variant of the loop that returns at the first mismatch
RECURSIVE compare_until_mismatch(_, _, _)
compare_until_mismatch(new_loc, prev_loc, attributes) ==
    IF attributes = <<>> THEN [result |-> FALSE, log |-> <<>>]
    ELSE LET attribute == Head(attributes)
         IN  IF new_loc[attribute] # prev_loc[attribute]
             THEN [result |-> TRUE, log |-> <<moved_notice(new_loc, prev_loc, attribute)>>]
             ELSE compare_until_mismatch(new_loc, prev_loc, Tail(attributes))

\* variant: return True inside the loop
location_changed_first_mismatch(new_loc, prev_loc) ==
    IF prev_loc = None
    THEN [result |-> FALSE, log |-> <<>>]
    ELSE compare_until_mismatch(new_loc, prev_loc, Attributes)

\* variant: the attributes are compared from cellId back to mcc
location_changed_reversed(new_loc, prev_loc) ==
    IF prev_loc = None
    THEN [result |-> FALSE, log |-> <<>>]
    ELSE compare_attributes(new_loc, prev_loc, <<"cellId", "lac", "mnc", "mcc">>,
                            [result |-> FALSE, log |-> <<>>])

\* variant: cellId left out of the attribute tuple
location_changed_without_cellId(new_loc, prev_loc) ==
    IF prev_loc = None
    THEN [result |-> FALSE, log |-> <<>>]
    ELSE compare_attributes(new_loc, prev_loc, <<"mcc", "mnc", "lac">>,
                            [result |-> FALSE, log |-> <<>>])

location_changed(new_loc, prev_loc) ==
    IF prev_loc = None
    THEN [result |-> FALSE, log |-> <<>>]
    ELSE compare_attributes(new_loc, prev_loc, Attributes, [result |-> FALSE, log |-> <<>>])

----------------------------------------------------------------------------
(* get_location_and_make_noise *)

\* variant: the baseline follows the latest present reading
adopt_latest(new_location, original_location) ==
    [original_location |-> new_location,
     log |-> IF original_location = None
             THEN <<LogCall("info", "The original stay-put location", <<new_location>>)>>
             ELSE <<>>]

\* variant: the info message is logged outside the "is None" test
adopt_log_always(new_location, original_location) ==
    LET kept == IF original_location = None THEN new_location ELSE original_location
    IN  [original_location |-> kept,
         log |-> <<LogCall("info", "The original stay-put location", <<kept>>)>>]

\* "if original_location is None: original_location = new_location; logger.info(...)"
adopt(new_location, original_location) ==
    IF original_location = None
    THEN [original_location |-> new_location,
          log |-> <<LogCall("info", "The original stay-put location", <<new_location>>)>>]
    ELSE [original_location |-> original_location, log |-> <<>>]

\* "if location_changed(new_location, original_location): logger.warn('The device moved!')"
check_moved(new_location, original_location) ==
    LET changed == location_changed(new_location, original_location)
    IN  IF changed.result
        THEN changed.log \o <<LogCall("warning", "The device moved!", <<>>)>>
        ELSE changed.log

\* the try block after the fetch returned new_location: the baseline it leaves,
\* its logger calls, and the exception it raises ("none" when it completes).
\* A return value that is no location record (None) makes loc['mcc'] raise.
try_block(new_location, original_location) ==
    LET latest == <<LogCall("debug", "Latest location", <<new_location>>)>>
    IN  IF "mcc" \notin DOMAIN new_location
        THEN [original_location |-> original_location, log |-> latest,
              raised |-> "BaseException"]
        ELSE IF is_location_present(new_location)
        THEN LET adopted == adopt(new_location, original_location)
             IN  [original_location |-> adopted.original_location,
                  log |-> latest \o adopted.log
                             \o check_moved(new_location, adopted.original_location),
                  raised |-> "none"]
        ELSE [original_location |-> original_location, log |-> latest, raised |-> "none"]

\* variant: a provider error runs the second handler as well
except_block_both(raised) ==
    IF raised = "ApiException"
    THEN <<LogCall("error", "There was a problem calling the API", <<raised>>),
           LogCall("error", "Something else went horribly wrong", <<raised>>)>>
    ELSE <<LogCall("error", "Something else went horribly wrong", <<raised>>)>>

\* variant: the provider error is reported as a warning
except_block_warning(raised) ==
    IF raised = "ApiException"
    THEN <<LogCall("warning", "There was a problem calling the API", <<raised>>)>>
    ELSE <<LogCall("error", "Something else went horribly wrong", <<raised>>)>>

\* "except ApiException as e" and "except BaseException as e": the logger calls of the handler
except_block(raised) ==
    IF raised = "ApiException"
    THEN <<LogCall("error", "There was a problem calling the API", <<raised>>)>>
    ELSE <<LogCall("error", "Something else went horribly wrong", <<raised>>)>>

\* variant: the next invocation is handed the baseline this one received
reschedule_stale(argument, original_location) ==
    <<[delay |-> LOCATION_REQUEST_PERIOD_SECONDS, priority |-> 1,
       action |-> "get_location_and_make_noise",
       argument |-> argument]>>

\* variant: device_id and device_id_type change places in the argument tuple
reschedule_swapped(argument, original_location) ==
    <<[delay |-> LOCATION_REQUEST_PERIOD_SECONDS, priority |-> 1,
       action |-> "get_location_and_make_noise",
       argument |-> [argument EXCEPT !.original_location = original_location,
                                     !.device_id = argument.device_id_type,
                                     !.device_id_type = argument.device_id]]>>

\* variant: scheduler.enter is called inside the try block and again after it
reschedule_twice(argument, original_location) ==
    LET call == [delay |-> LOCATION_REQUEST_PERIOD_SECONDS, priority |-> 1,
                 action |-> "get_location_and_make_noise",
                 argument |-> [argument EXCEPT !.original_location = original_location]]
    IN  <<call, call>>

\* variant: the next invocation is entered with begin_loop's delay of one second
reschedule_soon(argument, original_location) ==
    <<[delay |-> 1, priority |-> 1,
       action |-> "get_location_and_make_noise",
       argument |-> [argument EXCEPT !.original_location = original_location]]>>

\* "run this function again after some delay": the scheduler.enter calls of one invocation
reschedule(argument, original_location) ==
    <<[delay |-> LOCATION_REQUEST_PERIOD_SECONDS, priority |-> 1,
       action |-> "get_location_and_make_noise",
       argument |-> [argument EXCEPT !.original_location = original_location]]>>

\* "aerframesdk.get_location(account_id, api_key, device_id_type, device_id)": the call made
get_location(argument) ==
    [account_id |-> argument.account_id, api_key |-> argument.api_key,
     device_id_type |-> argument.device_id_type, device_id |-> argument.device_id]

\* variant: only ApiException is caught, any other exception leaves the function
\* before scheduler.enter is reached
get_location_and_make_noise_uncaught(argument, outcome) ==
    LET body == IF outcome.raised = "none"
                THEN try_block(outcome.value, argument.original_location)
                ELSE [original_location |-> argument.original_location, log |-> <<>>,
                      raised |-> outcome.raised]
    IN  [original_location |-> body.original_location,
         log |-> body.log \o (IF body.raised = "ApiException"
                              THEN except_block(body.raised) ELSE <<>>),
         fetches |-> <<get_location(argument)>>,
         entered |-> IF body.raised = "BaseException" THEN <<>>
                     ELSE reschedule(argument, body.original_location)]

\* variant: a fetch that raised ApiException is tried once more before giving up
get_location_and_make_noise_retry(argument, outcome) ==
    LET body == IF outcome.raised = "none"
                THEN try_block(outcome.value, argument.original_location)
                ELSE [original_location |-> argument.original_location, log |-> <<>>,
                      raised |-> outcome.raised]
        handler == IF body.raised = "none" THEN <<>> ELSE except_block(body.raised)
    IN  [original_location |-> body.original_location,
         log |-> body.log \o handler,
         fetches |-> IF outcome.raised = "ApiException"
                     THEN <<get_location(argument), get_location(argument)>>
                     ELSE <<get_location(argument)>>,
         entered |-> reschedule(argument, body.original_location)]

\* One invocation with the given arguments, in which the fetch did `outcome`:
\* the baseline it ends with, its logger calls, its fetch calls and its scheduler.enter calls.
get_location_and_make_noise(argument, outcome) ==
    LET body == IF outcome.raised = "none"
                THEN try_block(outcome.value, argument.original_location)
                ELSE [original_location |-> argument.original_location, log |-> <<>>,
                      raised |-> outcome.raised]
        handler == IF body.raised = "none" THEN <<>> ELSE except_block(body.raised)
    IN  [original_location |-> body.original_location,
         log |-> body.log \o handler,
         fetches |-> <<get_location(argument)>>,
         entered |-> reschedule(argument, body.original_location)]

----------------------------------------------------------------------------
(* sched.scheduler *)

\* scheduler.enter(delay, priority, action, argument) called at time t
enter(q, t, call) ==
    LET event == [time |-> t + call.delay, priority |-> call.priority,
                  action |-> call.action, argument |-> call.argument]
        Earlier(e) == \/ e.time < event.time
                      \/ e.time = event.time /\ e.priority <= event.priority
        Later(e) == ~Earlier(e)
    IN  SelectSeq(q, Earlier) \o <<event>> \o SelectSeq(q, Later)

RECURSIVE enter_all(_, _, _)
enter_all(q, t, calls) ==
    IF calls = <<>> THEN q
    ELSE enter_all(enter(q, t, Head(calls)), t, Tail(calls))

----------------------------------------------------------------------------
(* The polling loop *)

Init ==
    /\ pc = "main"
    /\ queue = <<>>
    /\ now = 0
    /\ ticks = 0
    /\ received = None
    /\ fetched = None
    /\ log = <<>>
    /\ entered = <<>>
    /\ fetches = <<>>
    /\ finished = 0
    /\ moved_before = FALSE
    /\ first_present = None
    /\ adoptions = 0
    /\ call_pc = "idle"
    /\ call_new = None
    /\ call_prev = None
    /\ returned = None

\* begin_loop: create the scheduler, enter the first invocation 1 second ahead, run
begin_loop ==
    /\ pc = "main"
    /\ \E argument \in Arguments :
          queue' = enter(<<>>, now,
                         [delay |-> 1, priority |-> 1,
                          action |-> "get_location_and_make_noise",
                          argument |-> argument])
    /\ pc' = "run"
    /\ UNCHANGED <<now, ticks, received, fetched, log, entered, fetches, finished,
                   moved_before, first_present, adoptions>>
    /\ UNCHANGED call_vars

\* scheduler.run(): the head event is not due yet, time.sleep until it is
run_sleep ==
    /\ pc = "run"
    /\ queue # <<>>
    /\ Head(queue).time > now
    /\ now' = Head(queue).time
    /\ UNCHANGED <<pc, queue, ticks, received, fetched, log, entered, fetches,
                   finished, moved_before, first_present, adoptions>>
    /\ UNCHANGED call_vars

\* scheduler.run(): the head event is due, pop it and call get_location_and_make_noise;
\* when the call is back and the queue is empty, run() and begin_loop return
run_tick_on(outcomes) ==
    /\ pc = "run"
    /\ queue # <<>>
    /\ Head(queue).time <= now
    /\ ticks < MaxTicks
    /\ \E outcome \in outcomes, duration \in {0, MaxDuration} :
          LET argument == Head(queue).argument
          IN  \E tick \in {get_location_and_make_noise(argument, outcome)} :
              /\ queue' = enter_all(Tail(queue), now + duration, tick.entered)
              /\ pc' = IF queue' = <<>> THEN "returned" ELSE "run"
              /\ now' = now + duration
              /\ finished' = now + duration
              /\ fetches' = tick.fetches
              /\ moved_before' = (\E i \in 1..Len(log) : log[i].msg = "The device moved!")
              /\ received' = argument.original_location
              /\ fetched' = outcome
              /\ log' = tick.log
              /\ entered' = tick.entered
              /\ first_present' =
                    IF first_present = None /\ Returned(outcome) /\ outcome.value.mcc # 0
                    THEN outcome.value
                    ELSE first_present
              /\ adoptions' = adoptions
                    + Len(SelectSeq(tick.log, LAMBDA c : c.level = "info"))
    /\ ticks' = ticks + 1
    /\ UNCHANGED call_vars

run_tick == run_tick_on(FetchOutcomes)

\* the same step, with the fetch outcomes taken from one of each kind
run_tick_kinds == run_tick_on(OutcomeKinds)

Next == begin_loop \/ run_sleep \/ run_tick

NextLive == begin_loop \/ run_sleep \/ run_tick_kinds

Spec == Init /\ [][Next]_vars

\* The process keeps running: begin_loop is called, time.sleep returns, and each
\* invocation (its fetch included) comes back.  Whether the loop goes on does not
\* depend on which record a fetch returns, so the outcomes are one of each kind.
SpecLive ==
    /\ Init /\ [][NextLive]_vars
    /\ WF_vars(begin_loop) /\ WF_vars(run_sleep) /\ WF_vars(run_tick_kinds)

----------------------------------------------------------------------------
(* Direct calls of the two helpers, on arbitrary arguments *)

InitCall ==
    /\ pc = "main"
    /\ queue = <<>>
    /\ now = 0
    /\ ticks = 0
    /\ received = None
    /\ fetched = None
    /\ log = <<>>
    /\ entered = <<>>
    /\ fetches = <<>>
    /\ finished = 0
    /\ moved_before = FALSE
    /\ first_present = None
    /\ adoptions = 0
    /\ call_pc = "ready"
    /\ call_new \in Locations
    /\ call_prev \in Locations \cup {None}
    /\ returned = None

call_is_location_present ==
    /\ call_pc = "ready"
    /\ returned' = [result |-> is_location_present(call_new), log |-> <<>>]
    /\ call_pc' = "is_location_present"
    /\ UNCHANGED <<call_new, call_prev>>
    /\ UNCHANGED loop_vars

call_location_changed ==
    /\ call_pc = "ready"
    /\ returned' = location_changed(call_new, call_prev)
    /\ call_pc' = "location_changed"
    /\ UNCHANGED <<call_new, call_prev>>
    /\ UNCHANGED loop_vars

NextCall == call_is_location_present \/ call_location_changed

SpecCall == InitCall /\ [][NextCall]_vars

----------------------------------------------------------------------------
(* Properties of the polling loop *)

\* the baseline the pending invocation will receive
Baseline ==
    IF queue = <<>> THEN None ELSE Head(queue).argument.original_location

AttributeSet == {Attributes[i] : i \in 1..Len(Attributes)}

Logged(level) == \E i \in 1..Len(log) : log[i].level = level

MovedLogged == \E i \in 1..Len(log) : log[i].msg = "The device moved!"

\* the latest invocation's fetch returned a present / an absent location record
FetchedPresent == ticks > 0 /\ Returned(fetched) /\ fetched.value.mcc # 0

FetchedAbsent == ticks > 0 /\ Returned(fetched) /\ fetched.value.mcc = 0

\* C1: once the baseline is set, every step leaves it as it is, and an
\* invocation that starts receives exactly that baseline, whatever its fetch does.
C1_BaselineImmutable ==
    [][Baseline # None =>
          /\ Baseline' = Baseline
          /\ (ticks' # ticks => received' = Baseline)]_vars

\* a set baseline has been through a later invocation that read a different present location
C1_Witness ==
    /\ ticks >= 2
    /\ received # None
    /\ FetchedPresent
    /\ fetched.value # received
    /\ Baseline = received

\* C2: the baseline is at all times the first present record a successful fetch
\* has returned since begin_loop, and unset while there has been none.
C2_BaselineIsFirstPresent ==
    Baseline = first_present

\* the baseline was adopted by an invocation that came after at least one without adoption
C2_Witness ==
    /\ ticks >= 2
    /\ received = None
    /\ FetchedPresent
    /\ Baseline = fetched.value
    /\ first_present = fetched.value

\* C3: the baseline is unset or has mcc # 0, and an invocation whose fetch
\* returned a record with mcc = 0 logs no "The device moved!" warning.
C3_AbsentNeverBaselineNeverMoved ==
    /\ (Baseline = None \/ Baseline.mcc # 0)
    /\ (FetchedAbsent => ~MovedLogged)

\* an absent reading that differs from the set baseline in all four fields
C3_Witness ==
    /\ FetchedAbsent
    /\ received # None
    /\ \A a \in AttributeSet : fetched.value[a] # received[a]
    /\ Baseline = received

\* C4: every invocation, whatever its fetch did, has made exactly one
\* scheduler.enter call for get_location_and_make_noise by the time it returns.
C4_OneNextInvocation ==
    ticks > 0 =>
        /\ Len(entered) = 1
        /\ entered[1].action = "get_location_and_make_noise"
        /\ Len(queue) = 1

\* an invocation in which something other than ApiException was raised, rescheduled
C4_Witness ==
    /\ ticks > 0
    /\ fetched.raised = "BaseException"
    /\ Len(entered) = 1
    /\ Len(queue) = 1

\* C5: an invocation whose fetch raised ApiException logs at error level,
\* logs nothing at info or warning level, and hands on the baseline it received.
C5_ProviderError ==
    (ticks > 0 /\ fetched.raised = "ApiException") =>
        /\ Logged("error")
        /\ ~Logged("info")
        /\ ~Logged("warning")
        /\ Len(entered) = 1
        /\ entered[1].argument.original_location = received
        /\ Baseline = received

\* a provider error in an invocation that received a set baseline
C5_Witness ==
    /\ ticks > 0
    /\ fetched.raised = "ApiException"
    /\ received # None
    /\ Logged("error")
    /\ Baseline = received

\* C6: with a baseline set, a present reading logs "The device moved!" exactly
\* when it differs from the baseline in one of the four fields, and the
\* baseline stays what it was.
C6_MovedIffDiffers ==
    (FetchedPresent /\ received # None) =>
        /\ MovedLogged <=> (\E a \in AttributeSet : fetched.value[a] # received[a])
        /\ Baseline = received

\* a reading that differs from the baseline in cellId only, reported as moved
C6_Witness ==
    /\ FetchedPresent
    /\ received # None
    /\ fetched.value.cellId # received.cellId
    /\ \A a \in AttributeSet \ {"cellId"} : fetched.value[a] = received[a]
    /\ MovedLogged
    /\ Baseline = received

\* C7: the invocation that adopts the baseline sets it to the reading, logs
\* the info message once and no "The device moved!"; over a run the info
\* message is logged at most once.
C7_Adoption ==
    /\ (FetchedPresent /\ received = None) =>
          /\ Baseline = fetched.value
          /\ Len(SelectSeq(log, LAMBDA c : c.level = "info")) = 1
          /\ ~MovedLogged
    /\ adoptions <= 1

\* the adopting invocation, followed by nothing yet
C7_Witness ==
    /\ FetchedPresent
    /\ received = None
    /\ adoptions = 1
    /\ Logged("info")
    /\ ~Logged("warning")

\* C8: an absent reading while the baseline is unset leaves it unset and
\* logs nothing but the debug line.
C8_AbsentWhileUnset ==
    (FetchedAbsent /\ received = None) =>
        /\ Baseline = None
        /\ \A i \in 1..Len(log) : log[i].level = "debug"

\* an absent reading with non-zero other fields, baseline unset before and after
C8_Witness ==
    /\ FetchedAbsent
    /\ received = None
    /\ fetched.value.mnc # 0
    /\ Baseline = None
    /\ Len(log) = 1

----------------------------------------------------------------------------
(* Properties of the helpers *)

Differing == {a \in AttributeSet : call_new[a] # call_prev[a]}

\* C9: location_changed is false and silent when prev_loc is None; otherwise it
\* is true exactly when some field differs, and it logs exactly one warning per
\* differing field, naming the field with its old and its new value.
C9_LocationChanged ==
    call_pc = "location_changed" =>
        IF call_prev = None
        THEN returned.result = FALSE /\ returned.log = <<>>
        ELSE /\ returned.result = (Differing # {})
             /\ Len(returned.log) = Cardinality(Differing)
             /\ \A a \in Differing :
                   \E i \in 1..Len(returned.log) :
                       /\ returned.log[i].level = "warning"
                       /\ returned.log[i].args = <<a, call_prev[a], call_new[a]>>

\* a call whose arguments differ in all four fields, with four notices
C9_Witness ==
    /\ call_pc = "location_changed"
    /\ call_prev # None
    /\ Cardinality(Differing) = 4
    /\ Len(returned.log) = 4
    /\ returned.result = TRUE

\* C10: is_location_present is false exactly when mcc is 0, whatever mnc, lac
\* and cellId are.
C10_IsLocationPresent ==
    call_pc = "is_location_present" =>
        (returned.result = FALSE <=> call_new.mcc = 0)

\* mcc = 0 with the other fields non-zero gives false
C10_Witness ==
    /\ call_pc = "is_location_present"
    /\ call_new.mcc = 0
    /\ call_new.mnc # 0 /\ call_new.lac # 0 /\ call_new.cellId # 0
    /\ returned.result = FALSE

----------------------------------------------------------------------------
(* Properties of the scheduling *)

\* C11 as stated: the first invocation starts 1 second after begin_loop with the
\* baseline unset, and every later one starts exactly one period after the
\* previous one started: each invocation starts when it is due, and the next
\* one is due one period after this one's start.
C11_OnePeriodAfterStart ==
    [][ticks' # ticks =>
          /\ now = Head(queue).time
          /\ (ticks = 0 => now = 1 /\ received' = None)
          /\ \A i \in 1..Len(queue') :
                queue'[i].time = now + LOCATION_REQUEST_PERIOD_SECONDS]_vars

\* C11 (amended): the first invocation is due 1 second after begin_loop and gets
\* the baseline unset; every later one is due exactly one period after the
\* previous invocation returned, and no invocation starts before it is due.
C11_OnePeriodAfterReturn ==
    [][ticks' # ticks =>
          /\ now >= Head(queue).time
          /\ finished' >= now
          /\ IF ticks = 0
             THEN Head(queue).time = 1 /\ received' = None
             ELSE Head(queue).time = finished + LOCATION_REQUEST_PERIOD_SECONDS]_vars

\* two slow invocations: the second was due, and started, one period after the
\* first returned
C11_Witness ==
    /\ ticks = 2
    /\ finished = 1 + 2 * MaxDuration + LOCATION_REQUEST_PERIOD_SECONDS
    /\ Head(queue).time = finished + LOCATION_REQUEST_PERIOD_SECONDS

\* C12: the queue never holds more than one pending invocation, holds exactly
\* one whenever scheduler.run() is between invocations, and what is pending is
\* never due before the latest invocation has returned.
C12_NoOverlap ==
    /\ Len(queue) <= 1
    /\ (pc = "main" => queue = <<>>)
    /\ (pc = "run" => Len(queue) = 1)
    /\ (ticks > 0 =>
          /\ finished <= now
          /\ Len(entered) <= 1
          /\ \A i \in 1..Len(queue) : queue[i].time >= finished)

\* between two invocations: the latest has returned, one event pending, not yet due
C12_Witness ==
    /\ pc = "run"
    /\ ticks >= 2
    /\ finished = now
    /\ Len(queue) = 1
    /\ Head(queue).time > now

\* C13: scheduler.run() never returns, and as long as the process runs every
\* invocation is followed by another one, whatever the fetches do (followed up
\* to the MaxTicks invocations explored).
C13_NeverTerminates ==
    /\ [](pc # "returned")
    /\ \A n \in 0..(MaxTicks - 1) : (ticks = n) ~> (ticks = n + 1)

\* the last explored invocation failed with a non-provider error and the loop
\* still has its next invocation pending
C13_Witness ==
    /\ ticks = MaxTicks
    /\ fetched.raised = "BaseException"
    /\ pc = "run"
    /\ queue # <<>>

----------------------------------------------------------------------------
(* Properties of consecutive invocations *)

\* C14: with a baseline set, whether an invocation logs "The device moved!"
\* depends on its own reading and the baseline only, and the baseline stays:
\* whatever the invocation before read, a present reading logs it exactly when
\* it differs from the baseline; so a reading that was reported as moved is
\* reported again when it is read again, and a reading equal to the baseline is
\* not reported although the one before was.
C14_NoDeduplication ==
    [][(ticks' # ticks /\ received' # None /\ Returned(fetched')
            /\ fetched'.value.mcc # 0) =>
          /\ Baseline' = received'
          /\ MovedLogged' <=> (fetched'.value # received')
          /\ (ticks > 0 /\ MovedLogged /\ Returned(fetched)
                /\ fetched'.value = fetched.value) => MovedLogged'
          /\ (ticks > 0 /\ MovedLogged /\ fetched'.value = received') => ~MovedLogged']_vars

\* two invocations in a row reported a move against the same, unchanged baseline
C14_Witness ==
    /\ ticks >= 3
    /\ moved_before
    /\ MovedLogged
    /\ received # None
    /\ Baseline = received
    /\ first_present = received

\* C15: every invocation calls aerframesdk.get_location exactly once, whatever
\* the call does, and enters its successor with the one fixed delay: a failed
\* fetch is tried again by the next invocation only, a full period later.
C15_NoRetryWithinTick ==
    ticks > 0 =>
        /\ Len(fetches) = 1
        /\ Len(entered) = 1
        /\ entered[1].delay = LOCATION_REQUEST_PERIOD_SECONDS
        /\ \A i \in 1..Len(queue) :
              queue[i].time = finished + LOCATION_REQUEST_PERIOD_SECONDS

\* a provider error: one fetch made, the next invocation a full period away
C15_Witness ==
    /\ ticks > 0
    /\ fetched.raised = "ApiException"
    /\ Len(fetches) = 1
    /\ Len(queue) = 1
    /\ Head(queue).time = finished + LOCATION_REQUEST_PERIOD_SECONDS

----------------------------------------------------------------------------
(* Properties of the messages of one invocation *)

ErrorCalls == SelectSeq(log, LAMBDA c : c.level = "error")

\* the latest invocation raised something other than ApiException: in the fetch,
\* or at loc['mcc'] on a return value that is no location record
OtherErrorRaised ==
    \/ fetched.raised = "BaseException"
    \/ fetched.raised = "none" /\ fetched.value = None

\* C16: an invocation in which ApiException was raised logs exactly one error,
\* the "problem calling the API" one; one in which any other error was raised
\* logs exactly one error, the "went horribly wrong" one; one in which nothing
\* was raised logs no error.
C16_OneErrorMessage ==
    ticks > 0 =>
        CASE fetched.raised = "ApiException" ->
                /\ Len(ErrorCalls) = 1
                /\ ErrorCalls[1].msg = "There was a problem calling the API"
          [] OtherErrorRaised ->
                /\ Len(ErrorCalls) = 1
                /\ ErrorCalls[1].msg = "Something else went horribly wrong"
          [] OTHER -> ErrorCalls = <<>>

\* an error raised after the fetch came back: the debug line, then the one error
C16_Witness ==
    /\ ticks > 0
    /\ fetched.raised = "none"
    /\ fetched.value = None
    /\ Len(log) = 2
    /\ log[1].level = "debug"
    /\ log[2].msg = "Something else went horribly wrong"

WarningCalls == SelectSeq(log, LAMBDA c : c.level = "warning")

\* the fields in which the latest reading differs from the baseline it was
\* compared with, in the order mcc, mnc, lac, cellId
DifferingInOrder ==
    SelectSeq(<<"mcc", "mnc", "lac", "cellId">>,
              LAMBDA a : fetched.value[a] # received[a])

\* C17: an invocation that logs "The device moved!" logs, before it and in the
\* order mcc, mnc, lac, cellId, one notice for each differing field with the
\* baseline's and the reading's value, and no other warning: the number of
\* differing fields plus one in all.
C17_WarningOrder ==
    MovedLogged =>
        /\ received # None
        /\ Returned(fetched)
        /\ Len(DifferingInOrder) >= 1
        /\ Len(WarningCalls) = Len(DifferingInOrder) + 1
        /\ \A i \in 1..Len(DifferingInOrder) :
              /\ WarningCalls[i].msg = "Device has moved"
              /\ WarningCalls[i].args =
                    <<DifferingInOrder[i], received[DifferingInOrder[i]],
                      fetched.value[DifferingInOrder[i]]>>
        /\ WarningCalls[Len(WarningCalls)].msg = "The device moved!"

\* a reading that differs in mnc, lac and cellId: three notices, then the summary
C17_Witness ==
    /\ MovedLogged
    /\ DifferingInOrder = <<"mnc", "lac", "cellId">>
    /\ Len(WarningCalls) = 4
    /\ WarningCalls[1].args[1] = "mnc"
    /\ WarningCalls[3].args[1] = "cellId"
    /\ WarningCalls[4].msg = "The device moved!"

----------------------------------------------------------------------------
(* Properties of the arguments handed on *)

\* C18: what an invocation hands to the next one differs from the command
\* line's values in the baseline at most: account_id, api_key, device_id and
\* device_id_type are the ones it queried with itself, and the pending event
\* carries exactly them.
C18_OnlyBaselineChanges ==
    ticks > 0 =>
        /\ Len(fetches) = 1
        /\ Len(entered) = 1
        /\ [entered[1].argument EXCEPT !.original_location = None] \in Arguments
        /\ fetches[1] = [account_id |-> entered[1].argument.account_id,
                         api_key |-> entered[1].argument.api_key,
                         device_id_type |-> entered[1].argument.device_id_type,
                         device_id |-> entered[1].argument.device_id]
        /\ \A i \in 1..Len(queue) : queue[i].argument = entered[1].argument

\* a later invocation, the baseline set meanwhile: same device, same type tag
C18_Witness ==
    /\ ticks >= 2
    /\ received # None
    /\ fetches = <<[account_id |-> "acct", api_key |-> "key",
                    device_id_type |-> "IMSI", device_id |-> "imsi"]>>
    /\ Head(queue).argument.device_id = "imsi"
    /\ Head(queue).argument.device_id_type = "IMSI"
    /\ Head(queue).argument.original_location = received

====
